---- MODULE Spec2Model ----
(***************************************************************************)
(* A model of CAtransferEntropy.py: createCA, teCA, teCA_null, teCA_Box    *)
(* and greatestInfluence, each as a sequence of steps over its locals.     *)
(*                                                                         *)
(* Arrays are functions over 0..len-1 (the code's indexing); a matrix is a *)
(* record [rows, cols, d] with d[t][c], so that empty shapes keep both     *)
(* dimensions.  Values returned by the external calculator are fixed-point *)
(* numbers in units of 1/Scale; integer arrays hold plain integers.        *)
(*                                                                         *)
(* A call is made twice (run 1, then run 2 with the same arguments and the *)
(* numpy generator put back to the same state) so that the outputs of the  *)
(* two runs can be compared.                                               *)
(***************************************************************************)
EXTENDS Integers, Sequences, FiniteSets, TLC

VARIABLES
    fn, pc, run,                 \* function called, position in it, run number
    seed, rng,                   \* numpy generator: state at the start of a run, current state
    rule, timesteps, n,          \* createCA arguments
    ca,                          \* createCA: the matrix being built; teCA*: the input matrix
    k_history, neighbor, numTrials,  \* teCA / teCA_null / teCA_Box arguments
    teBox,                       \* greatestInfluence argument
    ca_space, bufs, ln, rn, ca_str, t, i,   \* createCA locals (i is also the inner loop variable elsewhere)
    neighb, column, x, y, localTE, teCalc, calls,  \* teCA* locals, the calculator object, the calls made on it
    towns,                       \* greatestInfluence local
    ret,                         \* the value returned by the current run
    ca0,                         \* the input matrix as it was when the function was called
    out1, calls1                 \* the value returned by run 1 and the calculator calls it made

args     == <<fn, seed, rule, timesteps, n, k_history, neighbor, numTrials, teBox, ca0>>
caLocals == <<ca_space, bufs, ln, rn, ca_str, t>>
teLocals == <<neighb, column, x, y, localTE, teCalc, calls>>
vars     == <<fn, pc, run, seed, rng, rule, timesteps, n, ca, k_history, neighbor,
              numTrials, teBox, ca_space, bufs, ln, rn, ca_str, t, i, neighb, column,
              x, y, localTE, teCalc, calls, towns, ret, ca0, out1, calls1>>

-----------------------------------------------------------------------------
(* Bounds of the model *)

MaxSteps  == 2      \* createCA: timesteps in 0..MaxSteps
MaxCols   == 3      \* width of the automaton / number of columns in 0..MaxCols
MaxRows   == 2      \* rows of an input matrix in 0..MaxRows
MaxK      == 2      \* k_history in 1..MaxK
MaxTrials == 2      \* numTrials in 1..MaxTrials

-----------------------------------------------------------------------------
(* Arrays *)

Zeros(len) == [j \in 0..(len - 1) |-> 0]

Zeros2(r, c) == [rows |-> r, cols |-> c, d |-> [a \in 0..(r - 1) |-> Zeros(c)]]

Zeros3(r, c, e) ==
    [rows |-> r, cols |-> c, depth |-> e,
     d |-> [a \in 0..(r - 1) |-> [b \in 0..(c - 1) |-> Zeros(e)]]]

\* np.roll(a, shift) on a 1-D array of length len: element j moves to (j + shift) mod len
Roll(a, len, shift) == [j \in 0..(len - 1) |-> a[(j - shift) % len]]

\* np.roll(m, shift, 1)[:, c]: roll every row, then take column c
RollColumn(m, shift, c) == [a \in 0..(m.rows - 1) |-> Roll(m.d[a], m.cols, shift)[c]]

\* m[:, c]
Column(m, c) == [a \in 0..(m.rows - 1) |-> m.d[a][c]]

RECURSIVE SumTo(_, _)
\* a[0] + ... + a[len-1]
SumTo(a, len) == IF len = 0 THEN 0 ELSE SumTo(a, len - 1) + a[len - 1]

-----------------------------------------------------------------------------
(* The numpy generator, abstracted as a full-period congruential generator *)
(* over eight states: a draw advances the state and is a function of it.   *)

RngStates == 0..7

Advance(s) == (5 * s + 3) % 8

RECURSIVE AdvanceN(_, _)
AdvanceN(s, count) == IF count = 0 THEN s ELSE AdvanceN(Advance(s), count - 1)

\* one draw of randint(0, 2): the high bit of the new state
DrawBit(s) == Advance(s) \div 4

\* one draw of an integer in 0..hi (the interval draw np.random.shuffle makes)
DrawInterval(s, hi) == Advance(s) % (hi + 1)

\* the draws made to depend on the run as well (a generator seeded from the clock)
RandintUnseeded(s, len) == [j \in 0..(len - 1) |-> (DrawBit(AdvanceN(s, j)) + run) % 2]

\* np.random.randint(0, 2, size=len) drawn from state s (the state left is AdvanceN(s, len))
Randint(s, len) == [j \in 0..(len - 1) |-> DrawBit(AdvanceN(s, j))]

-----------------------------------------------------------------------------
(* Conversions between cell states and the strings of the rule table *)

\* ndarray.astype(str) on one cell
Str(b) == IF b = 0 THEN "0" ELSE "1"

\* int(update) on a value of the rule table
IntOf(s) == CASE s = "0" -> 0 [] s = "1" -> 1

Keys == {"000", "001", "010", "011", "100", "101", "110", "111"}

\* the position of a neighbourhood in Wolfram's numbering
KeyIndex(key) ==
    CASE key = "000" -> 0 [] key = "001" -> 1 [] key = "010" -> 2 [] key = "011" -> 3
      [] key = "100" -> 4 [] key = "101" -> 5 [] key = "110" -> 6 [] key = "111" -> 7

\* the rule dictionary of an elementary rule number: string keys, string values
RuleTable(num) == [key \in Keys |-> Str((num \div (2 ^ KeyIndex(key))) % 2)]

Rules == {RuleTable(30), RuleTable(90), RuleTable(110), RuleTable(184)}

-----------------------------------------------------------------------------
(* createCA *)

\* the value a not yet assigned local holds in the model
None == <<>>

\* line 61 read through the live buffer instead of the copies taken at lines 55-57
TempRuleLive(j) ==
    Str(bufs[ca_space][(j - 1) % n]) \o Str(bufs[ca_space][j]) \o Str(bufs[ca_space][(j + 1) % n])

\* line 61: temp_rule = ln[i] + ca_str[i] + rn[i]
TempRule(j) == ln[j] \o ca_str[j] \o rn[j]

\* line 50 allocating one row per step only
createCA_AllocShort(steps, width) == Zeros2(steps, width)

\* line 50: ca = np.zeros((timesteps+1, n), dtype=int)
createCA_Alloc(steps, width) == Zeros2(steps + 1, width)

\* lines 49-53: draw the initial configuration, allocate ca and ca_new, set row 0
createCA_Begin ==
    /\ fn = "createCA" /\ pc = "call"
    /\ bufs' = [init |-> Randint(rng, n), new |-> Zeros(n)]
    /\ rng' = AdvanceN(rng, n)
    /\ ca_space' = "init"
    /\ ca' = LET z == createCA_Alloc(timesteps, n)
             IN  [z EXCEPT !.d[0] = Randint(rng, n)]
    /\ t' = 0 /\ i' = 0
    /\ pc' = "for_t"
    /\ UNCHANGED <<args, run, ln, rn, ca_str, teLocals, towns, ret, out1, calls1>>

\* lines 54-57: next t; ln, rn and ca_str are fresh string arrays made from ca_space
createCA_Step ==
    /\ fn = "createCA" /\ pc = "for_t" /\ t < timesteps
    /\ ln' = [j \in 0..(n - 1) |-> Str(Roll(bufs[ca_space], n, 1)[j])]
    /\ rn' = [j \in 0..(n - 1) |-> Str(Roll(bufs[ca_space], n, -1)[j])]
    /\ ca_str' = [j \in 0..(n - 1) |-> Str(bufs[ca_space][j])]
    /\ i' = 0
    /\ pc' = "for_i"
    /\ UNCHANGED <<args, run, rng, ca, ca_space, bufs, t, teLocals, towns, ret, out1, calls1>>

\* lines 58-65: one cell: look the neighbourhood up and write ca_new[i]
createCA_Cell ==
    /\ fn = "createCA" /\ pc = "for_i" /\ i < n
    /\ bufs' = [bufs EXCEPT !.new[i] = IntOf(rule[TempRule(i)])]
    /\ i' = i + 1
    /\ UNCHANGED <<args, run, rng, ca, ca_space, ln, rn, ca_str, t, pc, teLocals, towns,
                   ret, out1, calls1>>

\* lines 67-69: copy ca_new into row t+1 and make ca_space refer to ca_new
createCA_EndStep ==
    /\ fn = "createCA" /\ pc = "for_i" /\ i = n
    /\ ca' = [ca EXCEPT !.d[t + 1] = bufs.new]
    /\ ca_space' = "new"
    /\ t' = t + 1
    /\ pc' = "for_t"
    /\ UNCHANGED <<args, run, rng, bufs, ln, rn, ca_str, i, teLocals, towns, ret, out1, calls1>>

\* line 71
createCA_Return ==
    /\ fn = "createCA" /\ pc = "for_t" /\ t = timesteps
    /\ ret' = ca
    /\ pc' = "done"
    /\ UNCHANGED <<args, run, rng, ca, caLocals, i, teLocals, towns, out1, calls1>>

-----------------------------------------------------------------------------
(* The external calculator (TransferEntropyCalculatorDiscrete).  Its state  *)
(* is the constructor's arguments and the observations added since the last *)
(* initialise().  Its estimator is opaque: it is represented by a           *)
(* deterministic function of the observations held and of the two sequences *)
(* given, with one value per position of the destination, zero for the      *)
(* first k positions, in fixed-point units of 1/Scale, and taking negative, *)
(* fractional and larger-than-one values.  It is taken to accept every pair *)
(* of aligned sequences, whatever their length.                             *)

Scale == 4

NoCalc == [made |-> FALSE, base |-> 0, k |-> 0, obs |-> <<>>]

NewCalc(base, k) == [made |-> TRUE, base |-> base, k |-> k, obs |-> <<>>]

\* one entry of the record of calls made on the calculator: arguments a, b and result r
Call(op, a, b, r) == [op |-> op, a |-> a, b |-> b, r |-> r]

Len0(a) == Cardinality(DOMAIN a)

\* how many observed transitions (source s at u-1, destination d at u) one pair holds
PairCount(p, k, s, d) ==
    Cardinality({u \in k..(Len0(p[2]) - 1) : u >= 1 /\ p[1][u - 1] = s /\ p[2][u] = d})

RECURSIVE ObsCount(_, _, _, _)
ObsCount(obs, k, s, d) ==
    IF obs = <<>> THEN 0
    ELSE PairCount(Head(obs), k, s, d) + ObsCount(Tail(obs), k, s, d)

\* the local value at position u, in units of 1/Scale
LocalAt(calc, src, dst, u) ==
    IF u < calc.k \/ u < 1 THEN 0
    ELSE LET s == src[u - 1]
             d == dst[u]
             joint == ObsCount(calc.obs, calc.k, s, d)
             marg  == ObsCount(calc.obs, calc.k, s, 0) + ObsCount(calc.obs, calc.k, s, 1)
         IN  3 * (4 * joint - 3 * marg) - (IF d # s THEN 9 ELSE 0) + 4 * d * s

\* computeLocalFromPreviousObservations(src, dst): one value per position of dst
ComputeLocal(calc, src, dst) == [u \in 0..(Len0(dst) - 1) |-> LocalAt(calc, src, dst, u)]

-----------------------------------------------------------------------------
(* Storing calculator values in the integer result arrays *)

\* a float stored by flooring instead of truncating
FloorInt(v) == v \div Scale

\* assignment of a float to an element of an array of dtype=int: truncation toward zero
ToInt(v) == IF v >= 0 THEN v \div Scale ELSE -((-v) \div Scale)

\* localTE[:, c] = values          (2-D result)
StoreColumn(m, c, vals) ==
    [m EXCEPT !.d = [a \in 0..(m.rows - 1) |-> [m.d[a] EXCEPT ![c] = ToInt(vals[a])]]]

\* localTE[:, c, e] = values       (3-D result)
StoreColumn3(m, c, e, vals) ==
    [m EXCEPT !.d = [a \in 0..(m.rows - 1) |->
                        [m.d[a] EXCEPT ![c] = [m.d[a][c] EXCEPT ![e] = ToInt(vals[a])]]]]

-----------------------------------------------------------------------------
(* Steps written identically in teCA, teCA_null and teCA_Box *)

Unbound == [bound |-> FALSE, val |-> <<>>]

Bound(a) == [bound |-> TRUE, val |-> a]

\* str.upper() on the neighbor strings of the model
Upper(s) == CASE s = "l" -> "L" [] s = "r" -> "R" [] s = "x" -> "X" [] OTHER -> s

\* teCalc.initialise()
Initialise(f) ==
    /\ fn = f /\ pc = "initialise"
    /\ teCalc' = [teCalc EXCEPT !.obs = <<>>]
    /\ calls' = Append(calls, Call("initialise", None, None, None))
    /\ pc' = "addObservations"
    /\ UNCHANGED <<args, run, rng, ca, caLocals, i, neighb, column, x, y, localTE, towns,
                   ret, out1, calls1>>

\* teCalc.addObservations(y_JArray, x_JArray)
AddObservations(f) ==
    /\ fn = f /\ pc = "addObservations"
    /\ teCalc' = [teCalc EXCEPT !.obs = Append(@, <<y.val, x>>)]
    /\ calls' = Append(calls, Call("addObservations", y.val, x, None))
    /\ pc' = "compute"
    /\ UNCHANGED <<args, run, rng, ca, caLocals, i, neighb, column, x, y, localTE, towns,
                   ret, out1, calls1>>

-----------------------------------------------------------------------------
(* teCA *)

\* lines 124-130 with the two neighbours exchanged
teCA_SourceSwapped(c) ==
    IF neighb = "L" THEN Bound(RollColumn(ca, -1, c))
    ELSE IF neighb = "R" THEN Bound(RollColumn(ca, 1, c))
    ELSE y

\* lines 124-130: y is assigned only when neighb is "L" or "R"
teCA_Source(c) ==
    IF neighb = "L" THEN Bound(RollColumn(ca, 1, c))
    ELSE IF neighb = "R" THEN Bound(RollColumn(ca, -1, c))
    ELSE y

\* lines 133-136 with initialise() reached for the first column only
teCA_AfterSelectOnce(src) ==
    IF ~src.bound THEN "error" ELSE IF column = 0 THEN "initialise" ELSE "addObservations"

\* lines 133-136: y.tolist() raises when y is unbound; otherwise initialise() is next
teCA_AfterSelect(src) == IF src.bound THEN "initialise" ELSE "error"

\* lines 110-116
teCA_Begin ==
    /\ fn = "teCA" /\ pc = "call"
    /\ neighb' = Upper(neighbor)
    /\ localTE' = Zeros2(ca.rows, ca.cols)
    /\ teCalc' = NewCalc(2, k_history)
    /\ calls' = <<Call("new", 2, k_history, None)>>
    /\ column' = 0
    /\ pc' = "for_column"
    /\ UNCHANGED <<args, run, rng, ca, caLocals, i, x, y, towns, ret, out1, calls1>>

\* lines 118-134: next column; x and y; y.tolist() fails when y was never assigned
teCA_Select ==
    /\ fn = "teCA" /\ pc = "for_column" /\ column < ca.cols
    /\ x' = Column(ca, column)
    /\ y' = teCA_Source(column)
    /\ pc' = teCA_AfterSelect(y')
    /\ UNCHANGED <<args, run, rng, ca, caLocals, i, neighb, column, localTE, teCalc, calls,
                   towns, ret, out1, calls1>>

teCA_Initialise == Initialise("teCA")

teCA_AddObservations == AddObservations("teCA")

\* line 139
teCA_Compute ==
    /\ fn = "teCA" /\ pc = "compute"
    /\ localTE' = StoreColumn(localTE, column, ComputeLocal(teCalc, y.val, x))
    /\ calls' = Append(calls, Call("computeLocal", y.val, x, ComputeLocal(teCalc, y.val, x)))
    /\ column' = column + 1
    /\ pc' = "for_column"
    /\ UNCHANGED <<args, run, rng, ca, caLocals, i, neighb, x, y, teCalc, towns, ret,
                   out1, calls1>>

\* line 142
teCA_Return ==
    /\ fn = "teCA" /\ pc = "for_column" /\ column = ca.cols
    /\ ret' = localTE
    /\ pc' = "done"
    /\ UNCHANGED <<args, run, rng, ca, caLocals, i, teLocals, towns, out1, calls1>>

-----------------------------------------------------------------------------
(* teCA_null *)

Swap(a, j, r) == [a EXCEPT ![j] = a[r], ![r] = a[j]]

RECURSIVE ShuffleFrom(_, _, _)
\* np.random.shuffle on a 1-D array: for j = len-1 down to 1, draw r in 0..j and
\* exchange a[j] and a[r]; ShuffleFrom(a, j, s) does the exchanges from j down
ShuffleFrom(a, j, s) ==
    IF j < 1 THEN a
    ELSE ShuffleFrom(Swap(a, j, DrawInterval(s, j)), j - 1, Advance(s))

Shuffle(a, len, s) == ShuffleFrom(a, len - 1, s)

\* the number of draws np.random.shuffle makes on an array of length len
ShuffleDraws(len) == IF len >= 2 THEN len - 1 ELSE 0

\* y taken as a view of the column (no .copy()): shuffling y writes through to ca
CaAfterShuffleView(m, c, ys) ==
    [m EXCEPT !.d = [a \in 0..(m.rows - 1) |-> [m.d[a] EXCEPT ![c] = ys[a]]]]

\* lines 190-193: x and y are copies of the column, so shuffling y leaves ca as it was
CaAfterShuffle(m, c, ys) == m

\* numpy reductions over the last axis of one (row, column) position: v[0..cnt-1]
NpMaxLast(v, cnt) == v[cnt - 1]

NpMax(v, cnt) == CHOOSE m \in {v[e] : e \in 0..(cnt - 1)} : \A e \in 0..(cnt - 1) : v[e] <= m

\* the mean as an exact fraction
NpMean(v, cnt) == [num |-> SumTo(v, cnt), den |-> cnt]

ISqrt(m) == CHOOSE r \in 0..m : r * r <= m /\ (r + 1) * (r + 1) > m

\* np.std: the square root of the mean squared deviation from the mean, in units of
\* 1/Scale (rounded down to the fixed-point resolution).  With S the sum and N the
\* count, v[e] - S/N = (N*v[e] - S)/N, so the mean squared deviation is
\* sum((N*v[e] - S)^2) / N^3.
NpStd(v, cnt) ==
    LET S   == SumTo(v, cnt)
        dev == [e \in 0..(cnt - 1) |-> (cnt * v[e] - S) * (cnt * v[e] - S)]
    IN  ISqrt((SumTo(dev, cnt) * Scale * Scale) \div (cnt * cnt * cnt))

\* lines 181-183
teCA_null_Begin ==
    /\ fn = "teCA_null" /\ pc = "call"
    /\ localTE' = Zeros3(ca.rows, ca.cols, numTrials)
    /\ teCalc' = NewCalc(2, k_history)
    /\ calls' = <<Call("new", 2, k_history, None)>>
    /\ i' = 0 /\ column' = 0
    /\ pc' = "for_column"
    /\ UNCHANGED <<args, run, rng, ca, caLocals, neighb, x, y, towns, ret, out1, calls1>>

\* lines 184-196: next (trial, column); copy the column twice and shuffle one copy
teCA_null_Shuffle ==
    /\ fn = "teCA_null" /\ pc = "for_column" /\ i < numTrials /\ column < ca.cols
    /\ x' = Column(ca, column)
    /\ y' = Bound(Shuffle(Column(ca, column), ca.rows, rng))
    /\ rng' = AdvanceN(rng, ShuffleDraws(ca.rows))
    /\ ca' = CaAfterShuffle(ca, column, y'.val)
    /\ pc' = "initialise"
    /\ UNCHANGED <<args, run, caLocals, i, neighb, column, localTE, teCalc, calls, towns,
                   ret, out1, calls1>>

teCA_null_Initialise == Initialise("teCA_null")

teCA_null_AddObservations == AddObservations("teCA_null")

\* line 201, then the loop headers at lines 186 and 184
teCA_null_Compute ==
    /\ fn = "teCA_null" /\ pc = "compute"
    /\ localTE' = StoreColumn3(localTE, column, i, ComputeLocal(teCalc, y.val, x))
    /\ calls' = Append(calls, Call("computeLocal", y.val, x, ComputeLocal(teCalc, y.val, x)))
    /\ IF column + 1 < ca.cols
         THEN column' = column + 1 /\ i' = i
         ELSE column' = 0 /\ i' = i + 1
    /\ pc' = "for_column"
    /\ UNCHANGED <<args, run, rng, ca, caLocals, neighb, x, y, teCalc, towns, ret, out1, calls1>>

\* one output matrix of lines 204-206: a reduction over the trial axis at every position
Reduce(m, cnt, how) ==
    [rows |-> m.rows, cols |-> m.cols,
     d |-> [a \in 0..(m.rows - 1) |-> [c \in 0..(m.cols - 1) |->
              CASE how = "mean" -> NpMean(m.d[a][c], cnt)
                [] how = "std"  -> NpStd(m.d[a][c], cnt)
                [] how = "max"  -> NpMax(m.d[a][c], cnt)]]]

\* lines 204-208
teCA_null_Return ==
    /\ fn = "teCA_null" /\ pc = "for_column" /\ (i = numTrials \/ ca.cols = 0)
    /\ ret' = [null |-> Reduce(localTE, numTrials, "mean"),
               std  |-> Reduce(localTE, numTrials, "std"),
               max  |-> Reduce(localTE, numTrials, "max")]
    /\ pc' = "done"
    /\ UNCHANGED <<args, run, rng, ca, caLocals, i, teLocals, towns, out1, calls1>>

-----------------------------------------------------------------------------
(* teCA_Box *)

\* lines 272-278 with a final else that falls back on the right neighbour
teCA_Box_SourceDefault(c, off) ==
    IF neighb = "L" THEN Bound(RollColumn(ca, off, c))
    ELSE Bound(RollColumn(ca, -off, c))

\* lines 272-278: y is assigned only when neighb is "L" or "R"
teCA_Box_Source(c, off) ==
    IF neighb = "L" THEN Bound(RollColumn(ca, off, c))
    ELSE IF neighb = "R" THEN Bound(RollColumn(ca, -off, c))
    ELSE y

\* lines 246-258
teCA_Box_Begin ==
    /\ fn = "teCA_Box" /\ pc = "call"
    /\ neighb' = Upper(neighbor)
    /\ localTE' = Zeros3(ca.rows, ca.cols, ca.cols)
    /\ teCalc' = NewCalc(2, k_history)
    /\ calls' = <<Call("new", 2, k_history, None)>>
    /\ column' = 0 /\ i' = 0
    /\ pc' = "for_column"
    /\ UNCHANGED <<args, run, rng, ca, caLocals, x, y, towns, ret, out1, calls1>>

\* lines 262-283: next (column, i); x and y; y.tolist() fails when y was never assigned
teCA_Box_Select ==
    /\ fn = "teCA_Box" /\ pc = "for_column" /\ column < ca.cols
    /\ x' = Column(ca, column)
    /\ y' = teCA_Box_Source(column, i)
    /\ pc' = IF y'.bound THEN "initialise" ELSE "error"
    /\ UNCHANGED <<args, run, rng, ca, caLocals, i, neighb, column, localTE, teCalc, calls,
                   towns, ret, out1, calls1>>

teCA_Box_Initialise == Initialise("teCA_Box")

teCA_Box_AddObservations == AddObservations("teCA_Box")

\* line 295, then the loop headers at lines 264 and 262
teCA_Box_Compute ==
    /\ fn = "teCA_Box" /\ pc = "compute"
    /\ localTE' = StoreColumn3(localTE, column, i, ComputeLocal(teCalc, y.val, x))
    /\ calls' = Append(calls, Call("computeLocal", y.val, x, ComputeLocal(teCalc, y.val, x)))
    /\ IF i + 1 < ca.cols
         THEN i' = i + 1 /\ column' = column
         ELSE i' = 0 /\ column' = column + 1
    /\ pc' = "for_column"
    /\ UNCHANGED <<args, run, rng, ca, caLocals, neighb, x, y, teCalc, towns, ret, out1, calls1>>

\* line 298
teCA_Box_Return ==
    /\ fn = "teCA_Box" /\ pc = "for_column" /\ column = ca.cols
    /\ ret' = localTE
    /\ pc' = "done"
    /\ UNCHANGED <<args, run, rng, ca, caLocals, i, teLocals, towns, out1, calls1>>

-----------------------------------------------------------------------------
(* greatestInfluence *)

\* line 331: indicies = np.arange(0, 226): indicies[j] = j for j in 0..225
NumTowns == 226

\* a[j] on a 1-D array of length len: negative j counts from the end; the result is
\* the position read, or -1 for an IndexError
PyIndex(len, j) ==
    IF 0 <= j /\ j < len THEN j
    ELSE IF -len <= j /\ j < 0 THEN j + len
    ELSE -1

\* np.argmax(teBox[i, :, :]): the first maximal entry of the flattened (row-major) slice
ArgMaxFlat(m, cols, depth) ==
    LET At(q) == m[q \div depth][q % depth]
    IN  CHOOSE q \in 0..(cols * depth - 1) :
            /\ \A r \in 0..(cols * depth - 1) : At(r) <= At(q)
            /\ \A r \in 0..(q - 1) : At(r) < At(q)

\* np.unravel_index(index, (cols, depth))[1]
UnravelLast(q, depth) == q % depth

\* lines 330-331
greatestInfluence_Begin ==
    /\ fn = "greatestInfluence" /\ pc = "call"
    /\ towns' = Zeros(teBox.rows)
    /\ i' = 0
    /\ pc' = "for_i"
    /\ UNCHANGED <<args, run, rng, ca, caLocals, teLocals, ret, out1, calls1>>

\* lines 333-337: the position read in indicies holds its own number (arange), which
\* then indexes towns; either read fails with an IndexError when out of range
greatestInfluence_Step ==
    /\ fn = "greatestInfluence" /\ pc = "for_i" /\ i < teBox.rows
    /\ LET index == UnravelLast(ArgMaxFlat(teBox.d[i], teBox.cols, teBox.depth), teBox.depth)
           town  == PyIndex(NumTowns, i - index)
           slot  == IF town = -1 THEN -1 ELSE PyIndex(teBox.rows, town)
       IN  IF slot = -1
             THEN pc' = "error" /\ UNCHANGED <<towns, i>>
             ELSE /\ towns' = [towns EXCEPT ![slot] = @ + 1]
                  /\ i' = i + 1
                  /\ pc' = "for_i"
    /\ UNCHANGED <<args, run, rng, ca, caLocals, teLocals, ret, out1, calls1>>

\* line 339 (indicies, the constant arange, is left out of the returned value)
greatestInfluence_Return ==
    /\ fn = "greatestInfluence" /\ pc = "for_i" /\ i = teBox.rows
    /\ ret' = towns
    /\ pc' = "done"
    /\ UNCHANGED <<args, run, rng, ca, caLocals, i, teLocals, towns, out1, calls1>>

-----------------------------------------------------------------------------
(* Inputs, the second run, and the specification *)

Fns == {"createCA", "teCA", "teCA_null", "teCA_Box", "greatestInfluence"}

Neighbors == {"L", "l", "R", "r", "x"}

\* an input matrix of the given shape whose cells are successive draws from state s
GenMatrix(s, r, c) ==
    [rows |-> r, cols |-> c,
     d |-> [a \in 0..(r - 1) |-> [b \in 0..(c - 1) |-> DrawBit(AdvanceN(s, a * c + b))]]]

\* an input 3-D array of integers 0..2 made the same way
GenBox(s, r, c, e) ==
    [rows |-> r, cols |-> c, depth |-> e,
     d |-> [a \in 0..(r - 1) |-> [b \in 0..(c - 1) |->
              [q \in 0..(e - 1) |-> AdvanceN(s, ((a * c + b) * e + q) % 8) % 3]]]]

InitLocals ==
    /\ ca_space = None /\ bufs = None /\ ln = None /\ rn = None /\ ca_str = None
    /\ t = 0 /\ i = 0
    /\ neighb = None /\ column = 0 /\ x = None /\ y = Unbound
    /\ localTE = None /\ teCalc = NoCalc /\ calls = <<>>
    /\ towns = None /\ ret = None

Init ==
    /\ fn \in Fns
    /\ pc = "call" /\ run = 1
    /\ seed \in RngStates /\ rng = seed
    /\ IF fn = "createCA"
         THEN rule \in Rules /\ timesteps \in 0..MaxSteps /\ n \in 0..MaxCols
         ELSE rule = None /\ timesteps = 0 /\ n = 0
    /\ IF fn \in {"teCA", "teCA_Box"}
         THEN /\ ca \in {GenMatrix(seed, r, c) : r \in 0..MaxRows, c \in 0..MaxCols}
              /\ neighbor \in Neighbors
         ELSE IF fn = "teCA_null"
         THEN /\ ca \in {GenMatrix(s, r, c) : s \in {seed, AdvanceN(seed, 3)},
                                              r \in 0..MaxRows, c \in 0..MaxCols}
              /\ neighbor = None
         ELSE ca = None /\ neighbor = None
    /\ IF fn \in {"teCA", "teCA_Box", "teCA_null"}
         THEN k_history \in 1..MaxK
         ELSE k_history = 0
    /\ IF fn = "teCA_null" THEN numTrials \in 1..MaxTrials ELSE numTrials = 0
    /\ IF fn = "greatestInfluence"
         THEN teBox \in {GenBox(seed, r, c, e) : r \in 0..MaxCols, c \in 1..MaxRows, e \in 1..MaxCols}
         ELSE teBox = None
    /\ ca0 = ca
    /\ out1 = None /\ calls1 = None
    /\ InitLocals

\* the caller keeps the first result and calls again with the same arguments; the numpy
\* generator is put back to the state the first run started from for the two functions
\* that draw from it, and left in another state for the others
Rerun ==
    /\ pc = "done" /\ run = 1
    /\ run' = 2
    /\ out1' = ret /\ calls1' = calls
    /\ rng' = IF fn \in {"createCA", "teCA_null"} THEN seed ELSE Advance(seed)
    /\ ca' = ca0
    /\ pc' = "call"
    /\ ca_space' = None /\ bufs' = None /\ ln' = None /\ rn' = None /\ ca_str' = None
    /\ t' = 0 /\ i' = 0
    /\ neighb' = None /\ column' = 0 /\ x' = None /\ y' = Unbound
    /\ localTE' = None /\ teCalc' = NoCalc /\ calls' = <<>>
    /\ towns' = None /\ ret' = None
    /\ UNCHANGED args

Next ==
    \/ createCA_Begin \/ createCA_Step \/ createCA_Cell \/ createCA_EndStep \/ createCA_Return
    \/ teCA_Begin \/ teCA_Select \/ teCA_Initialise \/ teCA_AddObservations
    \/ teCA_Compute \/ teCA_Return
    \/ teCA_null_Begin \/ teCA_null_Shuffle \/ teCA_null_Initialise
    \/ teCA_null_AddObservations \/ teCA_null_Compute \/ teCA_null_Return
    \/ teCA_Box_Begin \/ teCA_Box_Select \/ teCA_Box_Initialise
    \/ teCA_Box_AddObservations \/ teCA_Box_Compute \/ teCA_Box_Return
    \/ greatestInfluence_Begin \/ greatestInfluence_Step \/ greatestInfluence_Return
    \/ Rerun

Spec == Init /\ [][Next]_vars

-----------------------------------------------------------------------------
(* Properties *)

TEFns == {"teCA", "teCA_null", "teCA_Box"}

\* the shape of a 2-D matrix is (r, c)
Shape2(m, r, c) ==
    /\ m.rows = r /\ m.cols = c
    /\ DOMAIN m.d = 0..(r - 1)
    /\ \A a \in 0..(r - 1) : DOMAIN m.d[a] = 0..(c - 1)

\* the shape of a 3-D array is (r, c, e)
Shape3(m, r, c, e) ==
    /\ m.rows = r /\ m.cols = c /\ m.depth = e
    /\ DOMAIN m.d = 0..(r - 1)
    /\ \A a \in 0..(r - 1) :
         /\ DOMAIN m.d[a] = 0..(c - 1)
         /\ \A b \in 0..(c - 1) : DOMAIN m.d[a][b] = 0..(e - 1)

\* the local rule applied to cell j of a row of width w
RuleOf(row, j, w) ==
    IntOf(rule[Str(row[(j - 1) % w]) \o Str(row[j]) \o Str(row[(j + 1) % w])])

\* every row written so far is the synchronous image of the row before it
C1_Rows ==
    (fn = "createCA" /\ pc # "call") =>
        \A r \in 0..(t - 1) : \A j \in 0..(n - 1) :
            ca.d[r + 1][j] = RuleOf(ca.d[r], j, n)

\* within a run, a step leaves the rows 0..t written so far as they are
C1_Frozen ==
    (fn = "createCA" /\ pc # "call" /\ run' = run) =>
        \A r \in 0..t : ca'.d[r] = ca.d[r]

\* C1: createCA evolves the automaton by synchronous update with periodic
\* boundaries: every cell of row t+1 is the rule applied to the cell and its two
\* cyclic neighbours in row t, at every step although ca_new is reused and aliased
\* to ca_space, and a row once written is not changed by later steps.
C1_SynchronousUpdate == [](C1_Rows) /\ [][C1_Frozen]_vars

\* a finished two-step evolution of three cells, computed in the aliased buffer,
\* whose rows are not all equal
C1_Witness ==
    /\ fn = "createCA" /\ pc = "done" /\ timesteps = 2 /\ n = 3
    /\ ca_space = "new"
    /\ ret.d[1] # ret.d[0] /\ ret.d[2] # ret.d[1]
    /\ \A j \in 0..2 : ret.d[2][j] = RuleOf(ret.d[1], j, 3)

\* C2: array shapes match the expected dimensions: createCA returns timesteps+1
\* rows of n cells, row 0 being the initial configuration and every cell 0 or 1;
\* for a ca of shape (T, n), teCA returns (T, n), teCA_Box returns (T, n, n) and
\* teCA_null returns three matrices of shape (T, n).
C2_Shapes ==
    pc = "done" =>
        /\ fn = "createCA" =>
             /\ Shape2(ret, timesteps + 1, n)
             /\ ret.d[0] = bufs.init
             /\ \A r \in 0..timesteps : \A j \in 0..(n - 1) : ret.d[r][j] \in {0, 1}
        /\ fn = "teCA" => Shape2(ret, ca0.rows, ca0.cols)
        /\ fn = "teCA_Box" => Shape3(ret, ca0.rows, ca0.cols, ca0.cols)
        /\ fn = "teCA_null" =>
             /\ Shape2(ret.null, ca0.rows, ca0.cols)
             /\ Shape2(ret.std, ca0.rows, ca0.cols)
             /\ Shape2(ret.max, ca0.rows, ca0.cols)

\* createCA has returned a matrix of the largest shape of the model
C2_Witness ==
    /\ fn = "createCA" /\ pc = "done"
    /\ timesteps = MaxSteps /\ n = MaxCols
    /\ ret.rows = MaxSteps + 1 /\ ret.cols = MaxCols

-----------------------------------------------------------------------------
(* The calculator calls of a run, by unit of work: entry 1 is the            *)
(* construction; unit u (from 0) takes entries 3u+2, 3u+3 and 3u+4.          *)

UnitsDone == (Len(calls) - 1) \div 3

AddOf(u) == calls[3 * u + 3]

ComputeOf(u) == calls[3 * u + 4]

\* the destination column and the inner index (trial or offset) of unit u
UnitColumn(u) ==
    CASE fn = "teCA" -> u
      [] fn = "teCA_null" -> u % ca0.cols
      [] fn = "teCA_Box" -> u \div ca0.cols

UnitInner(u) ==
    CASE fn = "teCA" -> 0
      [] fn = "teCA_null" -> u \div ca0.cols
      [] fn = "teCA_Box" -> u % ca0.cols

\* the column expected as source for destination c at offset e: e places to the
\* left or to the right, cyclically
LeftRight(c, e) ==
    IF neighbor \in {"L", "l"} THEN (c - e) % ca0.cols ELSE (c + e) % ca0.cols

\* the value stored for row a by unit u
StoredAt(m, a, u) ==
    IF fn = "teCA" THEN m.d[a][UnitColumn(u)] ELSE m.d[a][UnitColumn(u)][UnitInner(u)]

\* C3: the destination sequence of column c is ca[:, c]; the source is
\* ca[:, (c-1) mod n] for 'L' and ca[:, (c+1) mod n] for 'R' in teCA (letter case
\* ignored), and ca[:, (c-i) mod n] resp. ca[:, (c+i) mod n] at offset i in
\* teCA_Box, whose result at [:, c, i] comes from that pair; the n offsets of a
\* destination use every column once, and offset 1 is teCA's source.
C3_SourceSelection ==
    (fn \in {"teCA", "teCA_Box"} /\ neighbor \in {"L", "l", "R", "r"} /\ pc # "call") =>
        /\ \A u \in 0..(UnitsDone - 1) :
             LET c   == UnitColumn(u)
                 e   == IF fn = "teCA" THEN 1 ELSE UnitInner(u)
                 src == Column(ca0, LeftRight(c, e))
                 dst == Column(ca0, c)
             IN  /\ AddOf(u).a = src /\ AddOf(u).b = dst
                 /\ ComputeOf(u).a = src /\ ComputeOf(u).b = dst
                 /\ \A a \in 0..(ca0.rows - 1) :
                      StoredAt(localTE, a, u) = ToInt(ComputeOf(u).r[a])
        /\ pc \in {"initialise", "addObservations", "compute"} =>
             /\ x = Column(ca0, column)
             /\ y.val = Column(ca0, LeftRight(column, IF fn = "teCA" THEN 1 ELSE i))
        /\ (fn = "teCA_Box" /\ pc = "done") =>
             /\ UnitsDone = ca0.cols * ca0.cols
             /\ \A c \in 0..(ca0.cols - 1) :
                  /\ {LeftRight(c, e) : e \in 0..(ca0.cols - 1)} = 0..(ca0.cols - 1)
                  /\ LeftRight(c, 0) = c
        /\ (fn = "teCA" /\ pc = "done") => UnitsDone = ca0.cols

\* teCA has finished on three columns that are pairwise different, with the
\* left neighbour asked for in lower case
C3_Witness ==
    /\ fn = "teCA" /\ pc = "done" /\ neighbor = "l" /\ ca0.cols = 3 /\ ca0.rows = 2
    /\ Column(ca0, 0) # Column(ca0, 1) /\ Column(ca0, 1) # Column(ca0, 2)
    /\ Column(ca0, 0) # Column(ca0, 2)
    /\ AddOf(0).a = Column(ca0, 2)

\* the operation the k-th entry (from 2) of the record of calls must be
OpAt(j) ==
    CASE (j - 2) % 3 = 0 -> "initialise"
      [] (j - 2) % 3 = 1 -> "addObservations"
      [] (j - 2) % 3 = 2 -> "computeLocal"

\* the number of units of work of a call that returns
ExpectedUnits ==
    CASE fn = "teCA" -> ca0.cols
      [] fn = "teCA_null" -> numTrials * ca0.cols
      [] fn = "teCA_Box" -> ca0.cols * ca0.cols

\* the calculator holding exactly the pair (src, dst)
CalcWith(src, dst) == [NewCalc(2, k_history) EXCEPT !.obs = <<<<src, dst>>>>]

\* C7: the calculator is constructed once per call with (2, k_history); for every
\* unit of work the calls are initialise, addObservations(source, destination),
\* computeLocalFromPreviousObservations(source, destination) with the same two
\* equal-length sequences and no retry; the calculator holds the observations of
\* one pair only when a result is computed; a call that returns has made n,
\* numTrials*n, n*n compute calls respectively.
C7_CallProtocol ==
    (fn \in TEFns /\ pc # "call") =>
        /\ Len(calls) >= 1
        /\ calls[1] = Call("new", 2, k_history, None)
        /\ teCalc.made /\ teCalc.base = 2 /\ teCalc.k = k_history
        /\ \A j \in 2..Len(calls) : calls[j].op = OpAt(j)
        /\ \A u \in 0..(UnitsDone - 1) :
             /\ ComputeOf(u).a = AddOf(u).a /\ ComputeOf(u).b = AddOf(u).b
             /\ Len0(AddOf(u).a) = Len0(AddOf(u).b)
             /\ ComputeOf(u).r = ComputeLocal(CalcWith(AddOf(u).a, AddOf(u).b),
                                              AddOf(u).a, AddOf(u).b)
        /\ Len(teCalc.obs) <= 1
        /\ pc = "compute" => teCalc.obs = <<<<y.val, x>>>>
        /\ pc = "addObservations" => teCalc.obs = <<>>
        /\ pc = "done" => Len(calls) = 1 + 3 * ExpectedUnits

\* teCA_Box has returned after nine units of work on three columns
C7_Witness ==
    /\ fn = "teCA_Box" /\ pc = "done" /\ ca0.cols = 3 /\ ca0.rows = 2
    /\ Len(calls) = 28
    /\ calls[28].op = "computeLocal" /\ calls[28].a # calls[25].a

\* two sequences of cell states of which one is a rearrangement of the other
IsPermutation(a, b) ==
    /\ DOMAIN a = DOMAIN b
    /\ \A v \in {0, 1} :
         Cardinality({j \in DOMAIN a : a[j] = v}) = Cardinality({j \in DOMAIN b : b[j] = v})

-----------------------------------------------------------------------------

Abs(v) == IF v >= 0 THEN v ELSE -v

\* the integer k is the fixed-point value v (units of 1/Scale) cut toward zero
TruncatedTowardZero(k, v) ==
    /\ k \in Int
    /\ k * v >= 0
    /\ Abs(k) * Scale <= Abs(v)
    /\ Abs(v) < (Abs(k) + 1) * Scale

\* the trial values of teCA_null at (row a, column c), taken from the calculator's results
TrialValues(a, c) == {ToInt(ComputeOf(u).r[a]) : u \in {w \in 0..(UnitsDone - 1) : UnitColumn(w) = c}}

C10_InvalidNeighbor ==
    (fn \in {"teCA", "teCA_Box"} /\ neighbor \notin {"L", "l", "R", "r"} /\ ca0.cols >= 1) =>
        /\ pc \in {"call", "for_column", "error"}
        /\ ret = None
        /\ ~y.bound
        /\ column = 0 /\ i = 0
        /\ pc # "call" =>
             /\ calls = <<Call("new", 2, k_history, None)>>
             /\ teCalc.obs = <<>>
             /\ localTE = (IF fn = "teCA" THEN Zeros2(ca0.rows, ca0.cols)
                           ELSE Zeros3(ca0.rows, ca0.cols, ca0.cols))

\* teCA_Box has failed on an invalid neighbor with the destination of the first
\* unit bound and the source not
C10_Witness ==
    /\ fn = "teCA_Box" /\ neighbor = "x" /\ pc = "error" /\ ca0.cols = 3 /\ ca0.rows = 2
    /\ x = Column(ca0, 0) /\ ~y.bound

-----------------------------------------------------------------------------

\* the per-trial values recorded at (row a, column c): localTE[a, c, :]
Recorded(a, c) == localTE.d[a][c]

SumSquares(v, cnt) == SumTo([e \in 0..(cnt - 1) |-> v[e] * v[e]], cnt)

\* C4: teCA_null returns, at every position, the arithmetic mean, the standard
\* deviation and the maximum of the numTrials values recorded there; hence the
\* mean is at most the maximum and the standard deviation is not negative, and
\* with one trial the mean is the maximum and the standard deviation is 0.
\* (The mean is an exact fraction num/den; the standard deviation s is in units
\* of 1/Scale, so it is compared with the population variance
\* (N*sum(v^2) - sum(v)^2) / N^2 to within that resolution.)
C4_NullStatistics ==
    (fn = "teCA_null" /\ pc = "done") =>
        \A a \in 0..(ca0.rows - 1) : \A c \in 0..(ca0.cols - 1) :
            LET v    == Recorded(a, c)
                N    == numTrials
                S    == SumTo(v, N)
                mean == ret.null.d[a][c]
                s    == ret.std.d[a][c]
                mx   == ret.max.d[a][c]
                var  == N * SumSquares(v, N) - S * S
            IN  /\ mean.den > 0 /\ mean.num * N = S * mean.den
                /\ \E e \in 0..(N - 1) : v[e] = mx
                /\ \A e \in 0..(N - 1) : v[e] <= mx
                /\ s >= 0
                /\ s * s * N * N <= var * Scale * Scale
                /\ var * Scale * Scale < (s + 1) * (s + 1) * N * N
                /\ mean.num <= mx * mean.den
                /\ N = 1 => (mean.num = mx * mean.den /\ s = 0)

\* teCA_null has returned from two trials that recorded different values at some
\* position, the first being the larger one
C4_Witness ==
    /\ fn = "teCA_null" /\ pc = "done" /\ numTrials = 2 /\ ca0.rows = 2 /\ ca0.cols >= 1
    /\ \E c \in 0..(ca0.cols - 1) :
         /\ localTE.d[1][c][0] > localTE.d[1][c][1]
         /\ ret.max.d[1][c] = localTE.d[1][c][0]
         /\ ret.std.d[1][c] > 0
         /\ ret.null.d[1][c].num < ret.max.d[1][c] * ret.null.d[1][c].den

\* the location position p singles out: p minus the offset of the first maximal
\* entry of teBox[p], wrapped around the number of locations
Influencer(p) ==
    (p - UnravelLast(ArgMaxFlat(teBox.d[p], teBox.cols, teBox.depth), teBox.depth)) % teBox.rows

\* C5: for every 3-D teBox, greatestInfluence completes without an index error and
\* returns counts in which towns[s] is the number of positions whose strongest
\* influencer is s, summing to teBox.shape[0].
C5_InfluenceCounts ==
    (fn = "greatestInfluence" /\ pc \in {"done", "error"}) =>
        /\ pc = "done"
        /\ DOMAIN ret = 0..(teBox.rows - 1)
        /\ \A s \in 0..(teBox.rows - 1) :
             ret[s] = Cardinality({p \in 0..(teBox.rows - 1) : Influencer(p) = s})
        /\ SumTo(ret, teBox.rows) = teBox.rows

====
